---- MODULE Spec2Model ----
(***************************************************************************)
(* Model of the SFTP -> S3 ingestion handlers.                             *)
(*                                                                         *)
(*   exact strategy     : src/bin/sftp-s3-cdk.ts (handler, listRecursive)  *)
(*                        with src/src/lib/idempotency.ts and              *)
(*                        src/src/lib/s3Writer.ts                          *)
(*   watermark strategy : src/lambda/sftp-to-s3-handler.ts                 *)
(*                                                                         *)
(* Strings are sequences of one-character strings so that the string       *)
(* operations of the code (replace, endsWith, regex match, comparison)     *)
(* are computed and not assumed.  Times are the integers the code uses:    *)
(* Date.now() in milliseconds, mtime / now / windowStart in seconds.       *)
(***************************************************************************)
EXTENDS Integers, Sequences, FiniteSets, TLC

VARIABLES
  strategy,      \* which handler is deployed: "exact", "watermark", "none"
  ddbTable,      \* TABLE_NAME is set (idempotency.ts:9)
  clock,         \* Date.now(), milliseconds
  ticks,         \* number of clock advances so far
  runs,          \* number of invocations started so far
  ledger,        \* DynamoDB table: <<path, mtime>> -> [processedAt, expiresAt]
  sink,          \* S3 bucket: key -> body
  \* ---- exact-strategy handler (src/bin/sftp-s3-cdk.ts) ----
  pc,            \* position of the running invocation
  now,           \* const now          (line 61)
  windowStart,   \* const windowStart  (line 62)
  sftp,          \* let sftp: "null" or "client" (line 55 / 66)
  session,       \* state of the remote session of this invocation
  allFiles,      \* const allFiles     (line 81)
  recentFiles,   \* const recentFiles  (line 82)
  idx,           \* position of the for loop in recentFiles (line 91)
  err,           \* the error travelling to the caller, "none" if none
  ferr,          \* the error caught at the file boundary, "none" if none
  st,            \* history: what was done for recentFiles[i] in this run
  writeCount,    \* history: completed sink writes per <<path, mtime>>
  excused,       \* history: <<path, mtime>> whose dedup bookkeeping is lost
  failedPrev,    \* history: <<path, mtime>> that failed in the previous run
  prevNow,       \* history: `now' of the previous run, -1 if none
  windowed,      \* history: <<path, mtime>> listed by a run inside its window
  \* ---- watermark-strategy handler (src/lambda/sftp-to-s3-handler.ts) ----
  wpc,               \* position of the running invocation
  wsession,          \* state of the remote session of this invocation
  wfiles,            \* const files (line 293)
  latestS3Timestamp, \* const latestS3Timestamp (line 296), "null" if none
  task,              \* state of the async callback of files[i] (lines 298-321)
  processedFiles,    \* let processedFiles (line 288)
  skippedFiles,      \* let skippedFiles (line 289)
  werr,              \* the error travelling to the caller, "none" if none
  wFailedPrev,       \* history: names that failed in the previous run
  \* ---- both handlers ----
  cfg,           \* history: the configuration the running invocation read
  \* ---- two overlapping invocations of the exact-strategy handler ----
  ov,            \* ov[i]: locals and position of invocation i
  \* ---- a pure function applied to drawn inputs ----
  pf             \* the function, its arguments and its results

evars == <<pc, now, windowStart, sftp, session, allFiles, recentFiles, idx,
           err, ferr, st, writeCount, excused, failedPrev, prevNow, windowed>>
wvars == <<wpc, wsession, wfiles, latestS3Timestamp, task, processedFiles,
           skippedFiles, werr, wFailedPrev>>
shared == <<strategy, ddbTable, clock, ticks, runs, ledger, sink>>
aux == <<cfg, ov, pf>>
vars == <<shared, evars, wvars, aux>>

(***************************************************************************)
(* Bounds                                                                  *)
(***************************************************************************)
MaxRuns == 2
MaxTicks == 2
MaxLen == 3

(***************************************************************************)
(* String helpers (JavaScript String semantics on character sequences)     *)
(***************************************************************************)
Range(s) == {s[i] : i \in 1..Len(s)}

\* s.startsWith(p, i-1)
StartsWithAt(s, p, i) ==
  /\ i >= 1
  /\ i + Len(p) - 1 <= Len(s)
  /\ SubSeq(s, i, i + Len(p) - 1) = p

\* s.indexOf(p) + 1 (0 when p does not occur)
IndexOf(s, p) ==
  IF \E i \in 1..(Len(s) + 1) : StartsWithAt(s, p, i)
  THEN CHOOSE i \in 1..(Len(s) + 1) :
         /\ StartsWithAt(s, p, i)
         /\ \A j \in 1..(i - 1) : ~StartsWithAt(s, p, j)
  ELSE 0

\* s.replace(p, r) with a string pattern: the first occurrence only
ReplaceFirst(s, p, r) ==
  LET i == IndexOf(s, p)
  IN IF i = 0 THEN s
     ELSE SubSeq(s, 1, i - 1) \o r \o SubSeq(s, i + Len(p), Len(s))

\* s.replace(/^\//, '')
StripLeadingSlashNot(s) == s
StripLeadingSlash(s) ==
  IF Len(s) > 0 /\ s[1] = "/" THEN Tail(s) ELSE s

\* s.endsWith(p)
EndsWith(s, p) ==
  /\ Len(p) <= Len(s)
  /\ SubSeq(s, Len(s) - Len(p) + 1, Len(s)) = p

(***************************************************************************)
(* Run configuration of the exact-strategy handler                         *)
(***************************************************************************)
LOOKBACK_MINUTES == 15
TTL_DAYS == 90
REMOTE_DIR == <<"/", "i", "n">>
TARGET_PREFIX == <<"i", "n", "g", "e", "s", "t", "/">>

\* the clock advances by half a lookback window at a time
TickMs == LOOKBACK_MINUTES * 30 * 1000

(***************************************************************************)
(* The remote tree served by sftp.list(dir): /in/a /in/b /in/s/c           *)
(* With the clock starting at 1000 s the first window starts at 100 s:     *)
(* a lies on the boundary, b one millisecond before it, c inside.          *)
(***************************************************************************)
SubDir == REMOTE_DIR \o <<"/", "s">>

RemoteTree ==
  [d \in {REMOTE_DIR, SubDir} |->
     IF d = REMOTE_DIR
     THEN << [name |-> <<"a">>, type |-> "-", size |-> 1, modifyTime |-> 100000],
             [name |-> <<"b">>, type |-> "-", size |-> 2, modifyTime |-> 99999],
             [name |-> <<"s">>, type |-> "d", size |-> 0, modifyTime |-> 100000] >>
     ELSE << [name |-> <<"c">>, type |-> "-", size |-> 3, modifyTime |-> 550500] >>]

RECURSIVE listRecursive(_), ListItems(_, _, _)
ListItems(dir, list, k) ==
  IF k > Len(list) THEN <<>>
  ELSE LET item == list[k]
           fullPath == dir \o <<"/">> \o item.name
       IN (IF item.type = "d"
           THEN listRecursive(fullPath)
           ELSE << [path |-> fullPath,
                    size |-> item.size,
                    mtime |-> item.modifyTime \div 1000] >>)
          \o ListItems(dir, list, k + 1)
listRecursive(dir) == ListItems(dir, RemoteTree[dir], 1)

Key(f) == <<f.path, f.mtime>>
AllKeys == {Key(f) : f \in Range(listRecursive(REMOTE_DIR))}

\* allFiles.filter(f => f.mtime >= windowStart)
InWindowStrict(f, ws) == f.mtime > ws
InWindow(f, ws) == f.mtime >= ws

RECURSIVE Filter(_, _)
Filter(files, ws) ==
  IF files = <<>> THEN <<>>
  ELSE (IF InWindow(Head(files), ws) THEN <<Head(files)>> ELSE <<>>)
       \o Filter(Tail(files), ws)

\* the s3Key of lines 104-106
s3KeyOf(prefix, root, path) ==
  IF prefix # <<>>
  THEN prefix \o <<"/">> \o StripLeadingSlash(ReplaceFirst(path, root, <<>>))
  ELSE StripLeadingSlash(ReplaceFirst(path, root, <<>>))

S3Key(path) == s3KeyOf(TARGET_PREFIX, REMOTE_DIR, path)

(***************************************************************************)
(* getCredentials (secrets.ts): throws unless the secret name is set, the  *)
(* secret is fetched, non-empty, parses, and names host, username, auth.   *)
(***************************************************************************)
SecretInputs ==
  [secretName : BOOLEAN, sendOk : BOOLEAN, secretString : BOOLEAN,
   parses : BOOLEAN, host : BOOLEAN, username : BOOLEAN, auth : BOOLEAN]

getCredentialsNoAuthCheck(in) ==
  /\ in.secretName
  /\ in.sendOk
  /\ in.secretString
  /\ in.parses
  /\ in.host /\ in.username
getCredentialsOk(in) ==
  /\ in.secretName
  /\ in.sendOk
  /\ in.secretString
  /\ in.parses
  /\ in.host /\ in.username /\ in.auth

\* what the invocation has read of its configuration: the environment is
\* complete, the credentials document was fetched and parsed, and which of
\* its required fields it holds
NoCfg == [env |-> FALSE, doc |-> FALSE, host |-> FALSE, username |-> FALSE,
          auth |-> FALSE, dir |-> FALSE]
\* secrets.ts lines 23-40; REMOTE_DIR has a default (sftp-s3-cdk.ts line 42)
CredentialsRead(in) ==
  LET doc == in.secretName /\ in.sendOk /\ in.secretString /\ in.parses
  IN [env |-> in.secretName, doc |-> doc, host |-> doc /\ in.host,
      username |-> doc /\ in.username, auth |-> doc /\ in.auth, dir |-> TRUE]

(***************************************************************************)
(* idempotency.ts                                                          *)
(***************************************************************************)
\* checkIdempotency: sendOk is whether the GetItem call returned
checkIdempotencyNoTableSkips(table, sendOk, key, led) ==
  IF ~table THEN TRUE
  ELSE IF sendOk THEN key \in DOMAIN led
  ELSE FALSE
checkIdempotencyFailClosed(table, sendOk, key, led) ==
  IF ~table THEN FALSE
  ELSE IF sendOk THEN key \in DOMAIN led
  ELSE TRUE
checkIdempotencyNever(table, sendOk, key, led) == FALSE
checkIdempotency(table, sendOk, key, led) ==
  IF ~table THEN FALSE
  ELSE IF sendOk THEN key \in DOMAIN led
  ELSE FALSE

\* the item markProcessed puts (lines 41-53)
DedupRecord(clk) ==
  LET n == clk \div 1000
  IN [processedAt |-> n, expiresAt |-> n + (TTL_DAYS * 24 * 60 * 60)]

Put(f, k, v) == [x \in (DOMAIN f) \cup {k} |-> IF x = k THEN v ELSE f[x]]

(***************************************************************************)
(* Initial state                                                           *)
(***************************************************************************)
NoSt == [lookup |-> "none", put |-> "none", cleanup |-> "none",
         mark |-> "none", outcome |-> "pending",
         puts |-> 0, cleanups |-> 0, perr |-> "none"]

EInit ==
  /\ pc = "idle"
  /\ now = 0
  /\ windowStart = 0
  /\ sftp = "null"
  /\ session = "none"
  /\ allFiles = <<>>
  /\ recentFiles = <<>>
  /\ idx = 0
  /\ err = "none"
  /\ ferr = "none"
  /\ st = <<>>
  /\ writeCount = [k \in AllKeys |-> 0]
  /\ excused = {}
  /\ failedPrev = {}
  /\ prevNow = -1
  /\ windowed = {}

(***************************************************************************)
(* Environment: time passes                                                *)
(***************************************************************************)
Tick ==
  /\ strategy = "exact"
  /\ ticks < MaxTicks
  /\ ticks' = ticks + 1
  /\ clock' = clock + TickMs
  /\ UNCHANGED <<strategy, ddbTable, runs, ledger, sink, evars>>
  /\ UNCHANGED <<wvars, aux>>

(***************************************************************************)
(* Exact-strategy handler, src/bin/sftp-s3-cdk.ts lines 52-151             *)
(***************************************************************************)
ERunning == pc \notin {"idle", "returned", "threw", "aborted"}

FailedNow ==
  {Key(recentFiles[i]) : i \in {j \in 1..Len(recentFiles) : st[j].outcome = "failed"}}

\* lines 53-62: the invocation starts and samples the window
EStart ==
  /\ strategy = "exact"
  /\ ~ERunning
  /\ runs < MaxRuns
  /\ runs' = runs + 1
  /\ now' = clock \div 1000
  /\ windowStart' = (clock \div 1000) - (LOOKBACK_MINUTES * 60)
  /\ sftp' = "null"
  /\ session' = "none"
  /\ allFiles' = <<>>
  /\ recentFiles' = <<>>
  /\ idx' = 0
  /\ st' = <<>>
  /\ err' = "none"
  /\ ferr' = "none"
  /\ failedPrev' = FailedNow
  /\ prevNow' = IF runs = 0 THEN -1 ELSE now
  /\ pc' = "getCredentials"
  /\ cfg' = NoCfg
  /\ UNCHANGED <<strategy, ddbTable, clock, ticks, ledger, sink, writeCount, excused,
                 windowed>>
  /\ UNCHANGED <<wvars, ov, pf>>

\* line 65
EGetCredentials ==
  /\ pc = "getCredentials"
  /\ \E in \in SecretInputs :
       /\ cfg' = CredentialsRead(in)
       /\ IF getCredentialsOk(in)
          THEN pc' = "connect" /\ err' = err
          ELSE pc' = "catch" /\ err' = "credentials"
  /\ UNCHANGED <<shared, now, windowStart, sftp, session, allFiles, recentFiles,
                 idx, ferr, st, writeCount, excused, failedPrev, prevNow, windowed>>
  /\ UNCHANGED <<wvars, ov, pf>>

\* lines 66-78
EConnect ==
  /\ pc = "connect"
  /\ sftp' = "client"
  /\ \E ok \in BOOLEAN :
       IF ok
       THEN pc' = "list" /\ session' = "open" /\ err' = err
       ELSE pc' = "catch" /\ session' = session /\ err' = "connect"
  /\ UNCHANGED <<shared, now, windowStart, allFiles, recentFiles,
                 idx, ferr, st, writeCount, excused, failedPrev, prevNow, windowed>>
  /\ UNCHANGED <<wvars, aux>>

\* lines 81-88
EList ==
  /\ pc = "list"
  /\ \E ok \in BOOLEAN :
       IF ok
       THEN /\ allFiles' = listRecursive(REMOTE_DIR)
            /\ recentFiles' = Filter(listRecursive(REMOTE_DIR), windowStart)
            /\ st' = [i \in 1..Len(Filter(listRecursive(REMOTE_DIR), windowStart)) |-> NoSt]
            /\ idx' = 1
            /\ pc' = "loop"
            /\ err' = err
            /\ windowed' = windowed \cup
                 {Key(f) : f \in Range(Filter(listRecursive(REMOTE_DIR), windowStart))}
       ELSE /\ pc' = "catch"
            /\ err' = "list"
            /\ UNCHANGED <<allFiles, recentFiles, st, idx, windowed>>
  /\ UNCHANGED <<shared, now, windowStart, sftp, session,
                 ferr, writeCount, excused, failedPrev, prevNow>>
  /\ UNCHANGED <<wvars, aux>>

\* lines 91-101: the idempotency check of the current file
ECheck ==
  /\ pc = "loop"
  /\ idx <= Len(recentFiles)
  /\ \E sendOk \in BOOLEAN :
       LET k == Key(recentFiles[idx])
           dup == checkIdempotency(ddbTable, sendOk, k, ledger)
           lk == IF ~ddbTable THEN "disabled"
                 ELSE IF ~sendOk THEN "threw"
                 ELSE IF k \in DOMAIN ledger THEN "hit" ELSE "miss"
       IN /\ IF dup
             THEN /\ st' = [st EXCEPT ![idx].lookup = lk, ![idx].outcome = "skipped"]
                  /\ idx' = idx + 1
                  /\ pc' = "loop"
             ELSE /\ st' = [st EXCEPT ![idx].lookup = lk]
                  /\ idx' = idx
                  /\ pc' = "upload"
          /\ excused' = IF lk \in {"threw", "disabled"} THEN excused \cup {k} ELSE excused
  /\ UNCHANGED <<shared, now, windowStart, sftp, session, allFiles, recentFiles,
                 err, ferr, writeCount, failedPrev, prevNow, windowed>>
  /\ UNCHANGED <<wvars, aux>>

\* lines 104-112 with s3Writer.ts lines 21-30: the PutObject of the read stream
EUploadPut ==
  /\ pc = "upload"
  /\ \E res \in {"ok", "readError", "putError"} :
       LET f == recentFiles[idx]
       IN IF res = "ok"
          THEN /\ sink' = Put(sink, S3Key(f.path), Key(f))
               /\ writeCount' = [writeCount EXCEPT ![Key(f)] = @ + 1]
               /\ st' = [st EXCEPT ![idx].put = "ok", ![idx].puts = @ + 1]
               /\ pc' = "mark"
               /\ ferr' = ferr
          ELSE /\ st' = [st EXCEPT ![idx].put = "threw", ![idx].puts = @ + 1,
                                   ![idx].perr = res]
               /\ pc' = "abortMultipart"
               /\ ferr' = res
               /\ UNCHANGED <<sink, writeCount>>
  /\ UNCHANGED <<strategy, ddbTable, clock, ticks, runs, ledger,
                 now, windowStart, sftp, session, allFiles, recentFiles, idx,
                 err, excused, failedPrev, prevNow, windowed>>
  /\ UNCHANGED <<wvars, aux>>

\* s3Writer.ts lines 31-47: best-effort cleanup, then the original error
uploadRethrowsNot(cleanupOk) == "mark"
uploadRethrows(cleanupOk) == "fileCatch"

\* s3Writer.ts lines 41-46: the error upload throws is the put's
uploadThrowsLast(error, cleanupOk) == IF cleanupOk THEN error ELSE "abortError"
uploadThrows(error, cleanupOk) == error

EUploadAbort ==
  /\ pc = "abortMultipart"
  /\ \E cleanupOk \in BOOLEAN :
       /\ st' = [st EXCEPT ![idx].cleanup = IF cleanupOk THEN "ok" ELSE "failed",
                           ![idx].cleanups = @ + 1]
       /\ pc' = uploadRethrows(cleanupOk)
       /\ ferr' = uploadThrows(ferr, cleanupOk)
  /\ UNCHANGED <<shared, now, windowStart, sftp, session, allFiles, recentFiles,
                 idx, err, writeCount, excused, failedPrev, prevNow, windowed>>
  /\ UNCHANGED <<wvars, aux>>

\* lines 114-125 with idempotency.ts lines 36-59
EMarkSkipped ==
  /\ pc = "mark"
  /\ st' = [st EXCEPT ![idx].mark = "ok", ![idx].outcome = "copied"]
  /\ excused' = excused \ {Key(recentFiles[idx])}
  /\ idx' = idx + 1
  /\ pc' = "loop"
  /\ UNCHANGED <<shared, now, windowStart, sftp, session, allFiles, recentFiles,
                 err, ferr, writeCount, failedPrev, prevNow, windowed>>
  /\ UNCHANGED <<wvars, aux>>

EMark ==
  /\ pc = "mark"
  /\ \E sendOk \in BOOLEAN :
       LET k == Key(recentFiles[idx])
       IN IF ddbTable /\ sendOk
          THEN /\ ledger' = Put(ledger, k, DedupRecord(clock))
               /\ st' = [st EXCEPT ![idx].mark = "ok", ![idx].outcome = "copied"]
               /\ excused' = excused \ {k}
          ELSE /\ ledger' = ledger
               /\ st' = [st EXCEPT ![idx].mark = IF ddbTable THEN "failed" ELSE "disabled",
                                   ![idx].outcome = "copied"]
               /\ excused' = excused \cup {k}
  /\ idx' = idx + 1
  /\ pc' = "loop"
  /\ UNCHANGED <<strategy, ddbTable, clock, ticks, runs, sink,
                 now, windowStart, sftp, session, allFiles, recentFiles,
                 err, ferr, writeCount, failedPrev, prevNow, windowed>>
  /\ UNCHANGED <<wvars, aux>>

\* lines 126-132: the catch at the file boundary
EFileCatchRethrow ==
  /\ pc = "fileCatch"
  /\ st' = [st EXCEPT ![idx].outcome = "failed"]
  /\ err' = ferr
  /\ pc' = "catch"
  /\ UNCHANGED <<shared, now, windowStart, sftp, session, allFiles, recentFiles,
                 idx, ferr, writeCount, excused, failedPrev, prevNow, windowed>>
  /\ UNCHANGED <<wvars, aux>>

EFileCatch ==
  /\ pc = "fileCatch"
  /\ st' = [st EXCEPT ![idx].outcome = "failed"]
  /\ ferr' = "none"
  /\ idx' = idx + 1
  /\ pc' = "loop"
  /\ UNCHANGED <<shared, now, windowStart, sftp, session, allFiles, recentFiles,
                 err, writeCount, excused, failedPrev, prevNow, windowed>>
  /\ UNCHANGED <<wvars, aux>>

\* lines 135-139: the loop is over
ESummary ==
  /\ pc = "loop"
  /\ idx > Len(recentFiles)
  /\ pc' = "finally"
  /\ UNCHANGED <<shared, now, windowStart, sftp, session, allFiles, recentFiles,
                 idx, err, ferr, st, writeCount, excused, failedPrev, prevNow, windowed>>
  /\ UNCHANGED <<wvars, aux>>

\* lines 140-145: the fatal catch logs and rethrows
ECatch ==
  /\ pc = "catch"
  /\ pc' = "finally"
  /\ UNCHANGED <<shared, now, windowStart, sftp, session, allFiles, recentFiles,
                 idx, err, ferr, st, writeCount, excused, failedPrev, prevNow, windowed>>
  /\ UNCHANGED <<wvars, aux>>

\* lines 146-150: sftp.end() when a client was created.  end() leaves the
\* client without a session whether it resolves or rejects; a rejection
\* replaces the error in flight.
EFinallyOnSuccessOnly ==
  /\ pc = "finally"
  /\ IF sftp # "null" /\ err = "none"
     THEN \E ok \in BOOLEAN :
            /\ session' = IF session = "open" THEN "closed" ELSE session
            /\ err' = IF ok THEN err ELSE "end"
            /\ pc' = IF ok /\ err = "none" THEN "returned" ELSE "threw"
     ELSE /\ session' = session
          /\ err' = err
          /\ pc' = IF err = "none" THEN "returned" ELSE "threw"
  /\ UNCHANGED <<shared, now, windowStart, sftp, allFiles, recentFiles,
                 idx, ferr, st, writeCount, excused, failedPrev, prevNow, windowed>>
  /\ UNCHANGED <<wvars, aux>>

EFinally ==
  /\ pc = "finally"
  /\ IF sftp # "null"
     THEN \E ok \in BOOLEAN :
            /\ session' = IF session = "open" THEN "closed" ELSE session
            /\ err' = IF ok THEN err ELSE "end"
            /\ pc' = IF ok /\ err = "none" THEN "returned" ELSE "threw"
     ELSE /\ session' = session
          /\ err' = err
          /\ pc' = IF err = "none" THEN "returned" ELSE "threw"
  /\ UNCHANGED <<shared, now, windowStart, sftp, allFiles, recentFiles,
                 idx, ferr, st, writeCount, excused, failedPrev, prevNow, windowed>>
  /\ UNCHANGED <<wvars, aux>>

\* the invoking scheduler's timeout (sftp-ingest-stack.ts line 193) kills the
\* invocation wherever it is; nothing of the handler runs afterwards
EAbort ==
  /\ strategy = "exact"
  /\ ERunning
  /\ pc' = "aborted"
  /\ excused' = IF pc = "mark" THEN excused \cup {Key(recentFiles[idx])} ELSE excused
  /\ UNCHANGED <<shared, now, windowStart, sftp, session, allFiles, recentFiles,
                 idx, err, ferr, st, writeCount, failedPrev, prevNow, windowed>>
  /\ UNCHANGED <<wvars, aux>>

(***************************************************************************)
(* Watermark strategy: names, tokens and their comparison                  *)
(***************************************************************************)
Digits == {"0", "1", "2", "3", "4", "5", "6", "7", "8", "9"}
UsageAcct == <<"U", "s", "a", "g", "e", "A", "c", "c", "t">>
DotCsv == <<".", "c", "s", "v">>
DotGz == <<".", "g", "z">>
Tok1 == <<"2", "0", "2", "4", "0", "1", "0", "1", "0", "0", "0", "0">>
Tok2 == <<"2", "0", "2", "4", "0", "1", "0", "2", "0", "0", "0", "0">>
SftpUser == <<"s", "f", "t", "p", "_", "u", "s", "e", "r", "/">>
SFTP_DIR == <<"/", "u", "p">>

\* the characters in use, in UTF-16 code unit order (operator <= on strings)
CodeUnitOrder ==
  <<".", "/", "0", "1", "2", "3", "4", "5", "6", "7", "8", "9", "A", "U",
    "_", "a", "c", "d", "e", "f", "g", "p", "r", "s", "t", "u", "v", "x", "z">>

\* the same characters in collation order (String.prototype.localeCompare):
\* punctuation, digits, then letters with lower case before upper case
CollationOrder ==
  <<"_", ".", "/", "0", "1", "2", "3", "4", "5", "6", "7", "8", "9", "a", "A",
    "c", "d", "e", "f", "g", "p", "r", "s", "t", "u", "U", "v", "x", "z">>

Pos(ord, c) == CHOOSE i \in 1..Len(ord) : ord[i] = c

RECURSIVE LexLess(_, _, _)
LexLess(a, b, ord) ==
  IF b = <<>> THEN FALSE
  ELSE IF a = <<>> THEN TRUE
  ELSE IF a[1] = b[1] THEN LexLess(Tail(a), Tail(b), ord)
  ELSE Pos(ord, a[1]) < Pos(ord, b[1])

\* a <= b on strings
StrLeq(a, b) == a = b \/ LexLess(a, b, CodeUnitOrder)

\* FILENAME_PATTERN = /UsageAcct(\d{12})\.csv/ matches s at position i
PatternAt(s, i) ==
  /\ StartsWithAt(s, UsageAcct, i)
  /\ i + 24 <= Len(s)
  /\ \A j \in (i + 9)..(i + 20) : s[j] \in Digits
  /\ StartsWithAt(s, DotCsv, i + 21)

isMatchingFilename(s) == \E i \in 1..Len(s) : PatternAt(s, i)

extractTimestamp(s) ==
  IF isMatchingFilename(s)
  THEN LET i == CHOOSE i \in 1..Len(s) :
                  PatternAt(s, i) /\ \A j \in 1..(i - 1) : ~PatternAt(s, j)
       IN SubSeq(s, i + 9, i + 20)
  ELSE "null"

\* getLatestFile (lines 201-218): the first key of the matching keys sorted
\* in descending localeCompare order
getLatestFile(keys) ==
  LET m == {k \in keys : isMatchingFilename(k)}
  IN IF m = {} THEN "null"
     ELSE CHOOSE k \in m : \A o \in m : ~LexLess(k, o, CollationOrder)

(***************************************************************************)
(* Decompression (lines 143-194).  A gzip stream is the magic header, the  *)
(* content and a check byte; an archive is "PK" followed by entries        *)
(* <<type, n, b1..bn>> with type 1 for File and 2 for Directory.           *)
(***************************************************************************)
GZIP_MAGIC_HEADER == <<31, 139>>
ZipMagic == <<80, 75>>

RECURSIVE SumSeq(_)
SumSeq(b) == IF b = <<>> THEN 0 ELSE Head(b) + SumSeq(Tail(b))
Crc(c) == (SumSeq(c) + Len(c)) % 256

gzip(c) == GZIP_MAGIC_HEADER \o c \o <<Crc(c)>>

hasGzipMagicHeader(b) ==
  /\ Len(b) >= 2
  /\ b[1] = GZIP_MAGIC_HEADER[1]
  /\ b[2] = GZIP_MAGIC_HEADER[2]

gunzipOk(b) ==
  /\ Len(b) >= 3
  /\ hasGzipMagicHeader(b)
  /\ b[Len(b)] = Crc(SubSeq(b, 3, Len(b) - 1))
gunzip(b) == SubSeq(b, 3, Len(b) - 1)

RECURSIVE ZipValidFrom(_, _), ZipEntriesFrom(_, _)
ZipValidFrom(b, i) ==
  IF i > Len(b) THEN TRUE
  ELSE /\ i + 1 <= Len(b)
       /\ b[i] \in {1, 2}
       /\ i + 1 + b[i + 1] <= Len(b)
       /\ ZipValidFrom(b, i + 2 + b[i + 1])
ZipEntriesFrom(b, i) ==
  IF i > Len(b) THEN <<>>
  ELSE << [type |-> IF b[i] = 1 THEN "File" ELSE "Directory",
           content |-> SubSeq(b, i + 2, i + 1 + b[i + 1])] >>
       \o ZipEntriesFrom(b, i + 2 + b[i + 1])

unzipOpenOk(b) == StartsWithAt(b, ZipMagic, 1) /\ ZipValidFrom(b, 3)
zipFiles(b) == ZipEntriesFrom(b, 3)

removeSuffixNot(filename, suffix) == filename
removeSuffix(filename, suffix) ==
  IF EndsWith(filename, suffix)
  THEN SubSeq(filename, 1, Len(filename) - Len(suffix))
  ELSE filename

\* validateAndDecompressGzipBuffer: the returned file, or the error thrown
\* (its kind, the start of its message, and the file it names)
validateAndDecompressGzipBufferRetry(buffer, fileName) ==
  IF ~EndsWith(fileName, DotGz)
  THEN [ok |-> TRUE, buffer |-> buffer, name |-> fileName]
  ELSE IF hasGzipMagicHeader(buffer) /\ gunzipOk(buffer)
  THEN [ok |-> TRUE, buffer |-> gunzip(buffer),
        name |-> removeSuffix(fileName, DotGz)]
  ELSE IF unzipOpenOk(buffer)
          /\ \E e \in 1..Len(zipFiles(buffer)) : zipFiles(buffer)[e].type = "File"
  THEN LET e == CHOOSE e \in 1..Len(zipFiles(buffer)) :
                  /\ zipFiles(buffer)[e].type = "File"
                  /\ \A d \in 1..(e - 1) : zipFiles(buffer)[d].type # "File"
       IN [ok |-> TRUE, buffer |-> zipFiles(buffer)[e].content,
           name |-> removeSuffix(fileName, DotGz)]
  ELSE [ok |-> FALSE, error |-> "CompressionError",
        message |-> "ZIP decompression failed", name |-> fileName]
validateAndDecompressGzipBufferByHeader(buffer, fileName) ==
  IF hasGzipMagicHeader(buffer) /\ gunzipOk(buffer)
  THEN [ok |-> TRUE, buffer |-> gunzip(buffer),
        name |-> removeSuffix(fileName, DotGz)]
  ELSE IF ~EndsWith(fileName, DotGz)
  THEN [ok |-> TRUE, buffer |-> buffer, name |-> fileName]
  ELSE [ok |-> FALSE, error |-> "CompressionError",
        message |-> "Gzip decompression failed", name |-> fileName]
validateAndDecompressGzipBuffer(buffer, fileName) ==
  IF ~EndsWith(fileName, DotGz)
  THEN [ok |-> TRUE, buffer |-> buffer, name |-> fileName]
  ELSE IF hasGzipMagicHeader(buffer)
  THEN IF gunzipOk(buffer)
       THEN [ok |-> TRUE, buffer |-> gunzip(buffer),
             name |-> removeSuffix(fileName, DotGz)]
       ELSE [ok |-> FALSE, error |-> "CompressionError",
             message |-> "Gzip decompression failed", name |-> fileName]
  ELSE IF unzipOpenOk(buffer)
          /\ \E e \in 1..Len(zipFiles(buffer)) : zipFiles(buffer)[e].type = "File"
  THEN LET e == CHOOSE e \in 1..Len(zipFiles(buffer)) :
                  /\ zipFiles(buffer)[e].type = "File"
                  /\ \A d \in 1..(e - 1) : zipFiles(buffer)[d].type # "File"
       IN [ok |-> TRUE, buffer |-> zipFiles(buffer)[e].content,
           name |-> removeSuffix(fileName, DotGz)]
  ELSE [ok |-> FALSE, error |-> "CompressionError",
        message |-> "ZIP decompression failed", name |-> fileName]

\* the listing sftp.list(SFTP_DIR) returns
WRemoteList ==
  << [name |-> UsageAcct \o Tok1 \o DotCsv, type |-> "-", data |-> <<7>>],
     [name |-> UsageAcct \o Tok2 \o DotCsv \o DotGz, type |-> "-", data |-> gzip(<<8>>)],
     [name |-> <<"d">>, type |-> "d", data |-> <<>>],
     [name |-> <<"x">>, type |-> "-", data |-> <<9>>],
     [name |-> <<"z">> \o UsageAcct \o Tok1 \o DotCsv, type |-> "-", data |-> <<6>>],
     [name |-> UsageAcct \o Tok2 \o DotCsv, type |-> "-", data |-> <<5>>] >>

\* the listing of the directory d of that listing: it holds one file
WRemoteSubList ==
  << [name |-> <<"e">>, type |-> "-", data |-> <<4>>] >>

\* validateEnvironment (lines 80-87)
EnvInputs == [SFTP_SECRET_NAME : BOOLEAN, AWS_REGION : BOOLEAN, S3_BUCKET : BOOLEAN]
validateEnvironmentOk(env) == env.SFTP_SECRET_NAME /\ env.AWS_REGION /\ env.S3_BUCKET

\* loadSftpSecret (lines 89-131): every failure is a ConfigurationError
WSecretInputs ==
  [sendOk : BOOLEAN, secretString : BOOLEAN, parses : BOOLEAN,
   SFTP_HOST : BOOLEAN, SFTP_PASSPHRASE : BOOLEAN, SFTP_USER : BOOLEAN,
   SFTP_DIR : BOOLEAN]
loadSftpSecretOk(in) ==
  /\ in.sendOk
  /\ in.secretString
  /\ in.parses
  /\ in.SFTP_HOST /\ in.SFTP_PASSPHRASE /\ in.SFTP_USER /\ in.SFTP_DIR
SecretRead(in) ==
  LET doc == in.sendOk /\ in.secretString /\ in.parses
  IN [env |-> TRUE, doc |-> doc, host |-> doc /\ in.SFTP_HOST,
      username |-> doc /\ in.SFTP_USER, auth |-> doc /\ in.SFTP_PASSPHRASE,
      dir |-> doc /\ in.SFTP_DIR]

\* the test of line 303
SkipsFileStrict(fileTimestamp, latest) ==
  \/ fileTimestamp = "null"
  \/ (latest # "null" /\ LexLess(fileTimestamp, latest, CodeUnitOrder))
SkipsFile(fileTimestamp, latest) ==
  \/ fileTimestamp = "null"
  \/ (latest # "null" /\ StrLeq(fileTimestamp, latest))

\* line 305: the reason logged for a skipped file; the counter of line 304
\* is the same for both causes and the result carries no reason
SkipReason(fileTimestamp, latest) == "older than latest S3 file"

\* what the callback of lines 298-321 does before its first await
Dispatch(file, latest) ==
  IF file.type # "-" THEN "ignored"
  ELSE IF SkipsFile(extractTimestamp(file.name), latest) THEN "skipped"
  ELSE "downloading"

WInit ==
  /\ wpc = "idle"
  /\ wsession = "none"
  /\ wfiles = <<>>
  /\ latestS3Timestamp = "null"
  /\ task = <<>>
  /\ processedFiles = 0
  /\ skippedFiles = 0
  /\ werr = "none"
  /\ wFailedPrev = {}

(***************************************************************************)
(* Watermark-strategy handler, src/lambda/sftp-to-s3-handler.ts            *)
(***************************************************************************)
WRunning == wpc \notin {"idle", "returned", "threw", "aborted"}
WSettled(t) == t \in {"ignored", "skipped", "uploaded", "failed"}

WFailedNow == {wfiles[i].name : i \in {j \in 1..Len(task) : task[j] = "failed"}}

\* lines 339-343: the invocation starts; validateEnvironment
WStart ==
  /\ strategy = "watermark"
  /\ ~WRunning
  /\ runs < MaxRuns
  /\ runs' = runs + 1
  /\ wsession' = "none"
  /\ wfiles' = <<>>
  /\ latestS3Timestamp' = "null"
  /\ task' = <<>>
  /\ processedFiles' = 0
  /\ skippedFiles' = 0
  /\ wFailedPrev' = WFailedNow
  /\ \E env \in EnvInputs :
       /\ cfg' = [NoCfg EXCEPT !.env = validateEnvironmentOk(env)]
       /\ IF validateEnvironmentOk(env)
          THEN wpc' = "loadSecret" /\ werr' = "none"
          ELSE wpc' = "handlerCatch" /\ werr' = "ConfigurationError"
  /\ UNCHANGED <<strategy, ddbTable, clock, ticks, ledger, sink, evars, ov, pf>>

\* lines 89-131, 344-351
WLoadSecret ==
  /\ wpc = "loadSecret"
  /\ \E in \in WSecretInputs :
       /\ cfg' = SecretRead(in)
       /\ IF loadSftpSecretOk(in)
          THEN wpc' = "connect" /\ werr' = werr
          ELSE wpc' = "handlerCatch" /\ werr' = "ConfigurationError"
  /\ UNCHANGED <<shared, evars, ov, pf, wsession, wfiles, latestS3Timestamp, task,
                 processedFiles, skippedFiles, wFailedPrev>>

\* line 292 with lines 244-250
WConnect ==
  /\ wpc = "connect"
  /\ \E ok \in BOOLEAN :
       IF ok
       THEN wpc' = "listFiles" /\ wsession' = "open" /\ werr' = werr
       ELSE wpc' = "disconnect" /\ wsession' = wsession /\ werr' = "SftpError"
  /\ UNCHANGED <<shared, evars, aux, wfiles, latestS3Timestamp, task,
                 processedFiles, skippedFiles, wFailedPrev>>

\* line 293 with lines 252-258
WListFiles ==
  /\ wpc = "listFiles"
  /\ \E ok \in BOOLEAN :
       IF ok
       THEN wpc' = "getLatest" /\ wfiles' = WRemoteList /\ werr' = werr
       ELSE wpc' = "disconnect" /\ wfiles' = wfiles /\ werr' = "SftpError"
  /\ UNCHANGED <<shared, evars, aux, wsession, latestS3Timestamp, task,
                 processedFiles, skippedFiles, wFailedPrev>>

\* lines 295-296 with lines 201-218
WGetLatest ==
  /\ wpc = "getLatest"
  /\ \E ok \in BOOLEAN :
       IF ok
       THEN /\ wpc' = "map"
            /\ latestS3Timestamp' =
                 IF getLatestFile(DOMAIN sink) # "null"
                 THEN extractTimestamp(getLatestFile(DOMAIN sink))
                 ELSE "null"
            /\ werr' = werr
       ELSE /\ wpc' = "disconnect"
            /\ latestS3Timestamp' = latestS3Timestamp
            /\ werr' = "S3Error"
  /\ UNCHANGED <<shared, evars, aux, wsession, wfiles, task,
                 processedFiles, skippedFiles, wFailedPrev>>

\* lines 298-321: files.map runs every callback up to its first await
WMap ==
  /\ wpc = "map"
  /\ task' = [i \in 1..Len(wfiles) |-> Dispatch(wfiles[i], latestS3Timestamp)]
  /\ skippedFiles' =
       Cardinality({i \in 1..Len(wfiles) :
                      Dispatch(wfiles[i], latestS3Timestamp) = "skipped"})
  /\ wpc' = "await"
  /\ UNCHANGED <<shared, evars, aux, wsession, wfiles, latestS3Timestamp,
                 processedFiles, werr, wFailedPrev>>

\* line 310 with lines 260-266: a download settles
WDownloadNoNormalize(i) ==
  /\ wpc = "await"
  /\ task[i] = "downloading"
  /\ \E ok \in BOOLEAN :
       task' = [task EXCEPT ![i] = IF ok THEN "uploading" ELSE "failed"]
  /\ UNCHANGED <<shared, evars, aux, wpc, wsession, wfiles, latestS3Timestamp,
                 processedFiles, skippedFiles, werr, wFailedPrev>>

WDownload(i) ==
  /\ wpc = "await"
  /\ task[i] = "downloading"
  /\ \E ok \in BOOLEAN :
       task' = [task EXCEPT ![i] = IF ok THEN "decompressing" ELSE "failed"]
  /\ UNCHANGED <<shared, evars, aux, wpc, wsession, wfiles, latestS3Timestamp,
                 processedFiles, skippedFiles, werr, wFailedPrev>>

\* line 311
WDecompress(i) ==
  /\ wpc = "await"
  /\ task[i] = "decompressing"
  /\ task' = [task EXCEPT ![i] =
                IF validateAndDecompressGzipBuffer(wfiles[i].data, wfiles[i].name).ok
                THEN "uploading" ELSE "failed"]
  /\ UNCHANGED <<shared, evars, aux, wpc, wsession, wfiles, latestS3Timestamp,
                 processedFiles, skippedFiles, werr, wFailedPrev>>

\* lines 313-316 with lines 220-233
WUploadCountsAttempt(i) ==
  /\ wpc = "await"
  /\ task[i] = "uploading"
  /\ \E ok \in BOOLEAN :
       LET file == validateAndDecompressGzipBuffer(wfiles[i].data, wfiles[i].name)
       IN /\ processedFiles' = processedFiles + 1
          /\ IF ok
             THEN /\ sink' = Put(sink, SftpUser \o file.name, file.buffer)
                  /\ task' = [task EXCEPT ![i] = "uploaded"]
             ELSE /\ task' = [task EXCEPT ![i] = "failed"]
                  /\ sink' = sink
  /\ UNCHANGED <<strategy, ddbTable, clock, ticks, runs, ledger, evars, aux, wpc,
                 wsession, wfiles, latestS3Timestamp, skippedFiles, werr,
                 wFailedPrev>>

WUpload(i) ==
  /\ wpc = "await"
  /\ task[i] = "uploading"
  /\ \E ok \in BOOLEAN :
       LET file == validateAndDecompressGzipBuffer(wfiles[i].data, wfiles[i].name)
       IN IF ok
          THEN /\ sink' = Put(sink, SftpUser \o file.name, file.buffer)
               /\ processedFiles' = processedFiles + 1
               /\ task' = [task EXCEPT ![i] = "uploaded"]
          ELSE /\ task' = [task EXCEPT ![i] = "failed"]
               /\ UNCHANGED <<sink, processedFiles>>
  /\ UNCHANGED <<strategy, ddbTable, clock, ticks, runs, ledger, evars, aux, wpc,
                 wsession, wfiles, latestS3Timestamp, skippedFiles, werr,
                 wFailedPrev>>

\* lines 323-330: Promise.all resolves once every callback has settled
WAllSettledFailFast ==
  /\ wpc = "await"
  /\ \/ \A i \in 1..Len(task) : WSettled(task[i])
     \/ \E i \in 1..Len(task) : task[i] = "failed"
  /\ wpc' = "disconnect"
  /\ UNCHANGED <<shared, evars, aux, wsession, wfiles, latestS3Timestamp, task,
                 processedFiles, skippedFiles, werr, wFailedPrev>>

WAllSettled ==
  /\ wpc = "await"
  /\ \A i \in 1..Len(task) : WSettled(task[i])
  /\ wpc' = "disconnect"
  /\ UNCHANGED <<shared, evars, aux, wsession, wfiles, latestS3Timestamp, task,
                 processedFiles, skippedFiles, werr, wFailedPrev>>

\* lines 332-334 with lines 268-274: end() is called and its error swallowed
WDisconnect ==
  /\ wpc = "disconnect"
  /\ wsession' = IF wsession = "open" THEN "closed" ELSE wsession
  /\ wpc' = IF werr = "none" THEN "returned" ELSE "handlerCatch"
  /\ UNCHANGED <<shared, evars, aux, wfiles, latestS3Timestamp, task,
                 processedFiles, skippedFiles, werr, wFailedPrev>>

\* lines 366-378
WHandlerCatch ==
  /\ wpc = "handlerCatch"
  /\ wpc' = "threw"
  /\ UNCHANGED <<shared, evars, aux, wsession, wfiles, latestS3Timestamp, task,
                 processedFiles, skippedFiles, werr, wFailedPrev>>

\* the scheduler's timeout (part_001 line 114) kills the invocation
WAbort ==
  /\ strategy = "watermark"
  /\ WRunning
  /\ wpc' = "aborted"
  /\ UNCHANGED <<shared, evars, aux, wsession, wfiles, latestS3Timestamp, task,
                 processedFiles, skippedFiles, werr, wFailedPrev>>

WNext ==
  \/ WStart \/ WLoadSecret \/ WConnect \/ WListFiles \/ WGetLatest \/ WMap
  \/ (\E i \in 1..Len(task) : WDownload(i))
  \/ (\E i \in 1..Len(task) : WDecompress(i))
  \/ (\E i \in 1..Len(task) : WUpload(i))
  \/ WAllSettled \/ WDisconnect \/ WHandlerCatch \/ WAbort

(***************************************************************************)
(* Two overlapping invocations of the exact-strategy handler               *)
(* (src/bin/sftp-s3-cdk.ts lines 52-151) on the same remote tree, ledger   *)
(* and sink.  Each invocation has its own locals; a step is the code       *)
(* between two awaits that touch the ledger or the sink.                   *)
(***************************************************************************)
Invocations == {1, 2}

OvIdle ==
  [i \in Invocations |->
     [pc |-> "idle", now |-> 0, windowStart |-> 0, recentFiles |-> <<>>,
      idx |-> 0, st |-> <<>>]]

OFinished(i) == ov[i].pc \in {"returned", "threw"}

\* lines 53-62
OStart(i) ==
  /\ ov[i].pc = "idle"
  /\ ov' = [ov EXCEPT ![i].pc = "list",
                      ![i].now = clock \div 1000,
                      ![i].windowStart = (clock \div 1000) - (LOOKBACK_MINUTES * 60)]
  /\ UNCHANGED <<shared, evars, wvars, cfg, pf>>

\* lines 65-88: credentials, connection, listing; a failure ends the run
OList(i) ==
  /\ ov[i].pc = "list"
  /\ \E ok \in BOOLEAN :
       IF ok
       THEN LET fs == Filter(listRecursive(REMOTE_DIR), ov[i].windowStart)
            IN ov' = [ov EXCEPT ![i].pc = "loop",
                                ![i].recentFiles = fs,
                                ![i].idx = 1,
                                ![i].st = [j \in 1..Len(fs) |->
                                             [lookup |-> "none", outcome |-> "pending"]]]
       ELSE ov' = [ov EXCEPT ![i].pc = "threw"]
  /\ UNCHANGED <<shared, evars, wvars, cfg, pf>>

\* lines 91-101
OCheck(i) ==
  /\ ov[i].pc = "loop"
  /\ ov[i].idx <= Len(ov[i].recentFiles)
  /\ \E sendOk \in BOOLEAN :
       LET n == ov[i].idx
           k == Key(ov[i].recentFiles[n])
           lk == IF ~ddbTable THEN "disabled"
                 ELSE IF ~sendOk THEN "threw"
                 ELSE IF k \in DOMAIN ledger THEN "hit" ELSE "miss"
       IN IF checkIdempotency(ddbTable, sendOk, k, ledger)
          THEN ov' = [ov EXCEPT ![i].st[n] = [lookup |-> lk, outcome |-> "skipped"],
                                ![i].idx = n + 1]
          ELSE ov' = [ov EXCEPT ![i].st[n].lookup = lk,
                                ![i].pc = "upload"]
  /\ UNCHANGED <<shared, evars, wvars, cfg, pf>>

\* lines 104-112 with s3Writer.ts lines 15-48, and the catch of lines 126-132
OPut(i) ==
  /\ ov[i].pc = "upload"
  /\ \E ok \in BOOLEAN :
       LET n == ov[i].idx
           f == ov[i].recentFiles[n]
       IN IF ok
          THEN /\ sink' = Put(sink, S3Key(f.path), Key(f))
               /\ ov' = [ov EXCEPT ![i].pc = "mark"]
          ELSE /\ sink' = sink
               /\ ov' = [ov EXCEPT ![i].st[n].outcome = "failed",
                                   ![i].idx = n + 1,
                                   ![i].pc = "loop"]
  /\ UNCHANGED <<strategy, ddbTable, clock, ticks, runs, ledger, evars, wvars, cfg, pf>>

\* lines 114-125 with idempotency.ts lines 36-59
OMark(i) ==
  /\ ov[i].pc = "mark"
  /\ \E sendOk \in BOOLEAN :
       LET n == ov[i].idx
           k == Key(ov[i].recentFiles[n])
       IN /\ ledger' = IF ddbTable /\ sendOk
                       THEN Put(ledger, k, DedupRecord(clock))
                       ELSE ledger
          /\ ov' = [ov EXCEPT ![i].st[n].outcome = "copied",
                              ![i].idx = n + 1,
                              ![i].pc = "loop"]
  /\ UNCHANGED <<strategy, ddbTable, clock, ticks, runs, sink, evars, wvars, cfg, pf>>

\* lines 135-150
OSummary(i) ==
  /\ ov[i].pc = "loop"
  /\ ov[i].idx > Len(ov[i].recentFiles)
  /\ ov' = [ov EXCEPT ![i].pc = "returned"]
  /\ UNCHANGED <<shared, evars, wvars, cfg, pf>>

(***************************************************************************)
(* Pure functions applied to drawn inputs: the key derivation of           *)
(* sftp-s3-cdk.ts lines 103-106 over the paths listRecursive builds, and   *)
(* validateAndDecompressGzipBuffer (sftp-to-s3-handler.ts lines 161-177).  *)
(***************************************************************************)
Roots == { <<"/", "i", "n">>, <<"/", "i", "n", "/">>, <<"/">> }
Prefixes == { <<>>, <<"i", "n", "g", "e", "s", "t", "/">>,
              <<"i", "n", "g", "e", "s", "t">>, <<"/", "p">> }
RelPaths == { <<"a">>, <<"s", "/", "c">> }
\* listRecursive line 158: `${dir}/${item.name}`, at every level
PathUnder(root, rel) == root \o <<"/">> \o rel

Bytes == {31, 139, 80, 75, 7}
Contents == UNION { [1..n -> Bytes] : n \in 0..MaxLen }
FileNames == { <<"f">> \o DotGz, <<"f">> \o DotCsv }
\* archives: empty, a directory entry only, a file entry, a directory entry
\* then a file entry
Archives == { ZipMagic, ZipMagic \o <<2, 0>>, ZipMagic \o <<1, 1, 7>>,
              ZipMagic \o <<2, 0, 1, 1, 7>> }
RawBuffers ==
  Contents \cup Archives \cup {gzip(c) : c \in {b \in Contents : Len(b) <= 1}}

PfIdle ==
  [fn |-> "none", prefix |-> <<>>, root |-> <<>>, path |-> <<>>,
   content |-> <<>>, name |-> <<>>, step |-> 0,
   key1 |-> <<>>, key2 |-> <<>>, out |-> [ok |-> FALSE]]

PureInputs ==
  { [PfIdle EXCEPT !.fn = "s3Key", !.prefix = p, !.root = r,
                   !.path = PathUnder(r, rel)] :
      p \in Prefixes, r \in Roots, rel \in RelPaths }
  \cup
  { [PfIdle EXCEPT !.fn = "normalize", !.content = c, !.name = nm] :
      c \in Contents, nm \in FileNames }
  \cup
  { [PfIdle EXCEPT !.fn = "normalizeRaw", !.content = c, !.name = nm] :
      c \in RawBuffers, nm \in FileNames }

PS3Key ==
  /\ pf.fn = "s3Key"
  /\ pf.step = 0
  /\ pf' = [pf EXCEPT !.key1 = s3KeyOf(pf.prefix, pf.root, pf.path), !.step = 1]
  /\ UNCHANGED <<shared, evars, wvars, cfg, ov>>

PS3KeyAgain ==
  /\ pf.fn = "s3Key"
  /\ pf.step = 1
  /\ pf' = [pf EXCEPT !.key2 = s3KeyOf(pf.prefix, pf.root, pf.path), !.step = 2]
  /\ UNCHANGED <<shared, evars, wvars, cfg, ov>>

PNormalize ==
  /\ pf.fn = "normalize"
  /\ pf.step = 0
  /\ pf' = [pf EXCEPT !.out = validateAndDecompressGzipBuffer(gzip(pf.content), pf.name),
                      !.step = 1]
  /\ UNCHANGED <<shared, evars, wvars, cfg, ov>>

PNormalizeRaw ==
  /\ pf.fn = "normalizeRaw"
  /\ pf.step = 0
  /\ pf' = [pf EXCEPT !.out = validateAndDecompressGzipBuffer(pf.content, pf.name),
                      !.step = 1]
  /\ UNCHANGED <<shared, evars, wvars, cfg, ov>>

Init ==
  /\ strategy \in {"exact", "watermark"}
  /\ ddbTable \in BOOLEAN
  /\ clock = 1000000
  /\ ticks = 0
  /\ runs = 0
  /\ ledger = <<>>
  /\ sink = <<>>
  /\ EInit
  /\ WInit
  /\ cfg = NoCfg
  /\ ov = OvIdle
  /\ pf = PfIdle

ENext ==
  \/ EStart \/ EGetCredentials \/ EConnect \/ EList \/ ECheck
  \/ EUploadPut \/ EUploadAbort \/ EMark \/ EFileCatch \/ ESummary
  \/ ECatch \/ EFinally \/ EAbort

Next == Tick \/ ENext \/ WNext

Spec == Init /\ [][Next]_vars

InitOverlap ==
  /\ strategy = "exact"
  /\ ddbTable \in BOOLEAN
  /\ clock = 1000000
  /\ ticks = 0
  /\ runs = 0
  /\ ledger = <<>>
  /\ sink = <<>>
  /\ EInit
  /\ WInit
  /\ cfg = NoCfg
  /\ ov = OvIdle
  /\ pf = PfIdle

NextOverlap ==
  \/ Tick
  \/ \E i \in Invocations :
       OStart(i) \/ OList(i) \/ OCheck(i) \/ OPut(i) \/ OMark(i) \/ OSummary(i)

SpecOverlap == InitOverlap /\ [][NextOverlap]_vars

InitPure ==
  /\ strategy = "none"
  /\ ddbTable = FALSE
  /\ clock = 1000000
  /\ ticks = 0
  /\ runs = 0
  /\ ledger = <<>>
  /\ sink = <<>>
  /\ EInit
  /\ WInit
  /\ cfg = NoCfg
  /\ ov = OvIdle
  /\ pf \in PureInputs

NextPure == PS3Key \/ PS3KeyAgain \/ PNormalize \/ PNormalizeRaw

SpecPure == InitPure /\ [][NextPure]_vars

(***************************************************************************)
(* Properties                                                              *)
(***************************************************************************)
ListedE == idx >= 1
RecentKeys == {Key(f) : f \in Range(recentFiles)}

\* C1: per-file isolation.  In both handlers an error raised for one file
\* is caught at that file's boundary: once the per-file phase has begun the
\* handler never throws because of a file, and when the handler has ended
\* every file that passed the filter has been attempted and has an outcome.
C1_PerFileIsolation ==
  /\ err \notin {"readError", "putError"}
  /\ (ListedE /\ pc \in {"finally", "returned", "threw"}) =>
        \A i \in 1..Len(st) : st[i].outcome # "pending"
  /\ (task # <<>>) => wpc \notin {"handlerCatch", "threw"}
  /\ (task # <<>> /\ wpc \in {"disconnect", "returned"}) =>
        \A i \in 1..Len(task) : WSettled(task[i])

C1_Witness ==
  /\ pc = "returned"
  /\ \E i, j \in 1..Len(st) :
       /\ i < j
       /\ st[i].outcome = "failed"
       /\ st[j].outcome = "copied"

\* C2 (as stated): over any sequence of runs of the exact-strategy handler
\* no remote file version (path, modifiedAt) is written to the sink more
\* than once, also when a ledger lookup or commit fails or a run is aborted
\* after a write.
C2_ExactlyOnce == ddbTable => \A k \in AllKeys : writeCount[k] <= 1

\* C2 (amended): a file version that has already been written is written
\* again only when its dedup bookkeeping is lost at that moment: no ledger
\* table is configured, the lookup of this run threw, or the commit that
\* followed the last write failed or was cut off by an abort.
C2_AtMostOnceUnlessLost ==
  [][\A k \in AllKeys :
       (writeCount'[k] > writeCount[k] /\ writeCount[k] >= 1) => k \in excused]_vars

C2_Witness ==
  /\ runs = 2
  /\ pc = "returned"
  /\ \E i \in 1..Len(st) :
       /\ st[i].lookup = "hit"
       /\ st[i].outcome = "skipped"
       /\ writeCount[Key(recentFiles[i])] = 1
       /\ Key(recentFiles[i]) \notin excused

\* C3 (as stated): for every (path, modifiedAt) that has a committed
\* DedupRecord, a later run of the exact-strategy handler never opens a read
\* stream for the file and never calls the sink write for it.
C3_NoRefetch ==
  (pc \in {"upload", "abortMultipart", "mark"}) =>
     Key(recentFiles[idx]) \notin DOMAIN ledger

\* C3 (amended): for every (path, modifiedAt) that has a committed
\* DedupRecord, a later run whose ledger lookup for the file succeeds never
\* opens a read stream for it and never calls the sink write for it; the
\* file is transferred again only when the lookup threw.
C3_NoRefetchWhenLookupOk ==
  /\ (pc \in {"upload", "abortMultipart", "mark"}
        /\ Key(recentFiles[idx]) \in DOMAIN ledger) => st[idx].lookup = "threw"
  /\ \A i \in 1..Len(st) : st[i].lookup = "hit" => st[i].put = "none"

C3_Witness ==
  /\ pc = "loop"
  /\ \E i \in 1..Len(st) :
       /\ i < idx
       /\ Key(recentFiles[i]) \in DOMAIN ledger
       /\ st[i].lookup = "hit"
       /\ st[i].put = "none"

\* C4: ledger invariant.  In every reachable state, aborted runs included,
\* a DedupRecord for (path, modifiedAt) exists only if a sink write for that
\* file completed earlier, and markProcessed is never reached for a file
\* whose upload threw.
C4_LedgerInvariant ==
  /\ \A k \in DOMAIN ledger : k \in AllKeys /\ writeCount[k] >= 1
  /\ \A i \in 1..Len(st) : st[i].put = "threw" => st[i].mark = "none"

C4_Witness ==
  /\ pc = "aborted"
  /\ DOMAIN ledger # {}
  /\ \E i \in 1..Len(st) : st[i].put = "threw" /\ st[i].outcome = "failed"

\* C5: implicit retry.  A file whose processing failed in one run and that
\* is still on the remote endpoint is attempted again by the next scheduled
\* run (one schedule period, LOOKBACK_MINUTES, later), in the exact handler
\* and in the watermark handler.
C5_RetryNextRun ==
  /\ (ListedE /\ prevNow >= 0 /\ now - prevNow = LOOKBACK_MINUTES * 60) =>
        failedPrev \subseteq RecentKeys
  /\ (wpc = "await") =>
        \A i \in 1..Len(task) :
           wfiles[i].name \in wFailedPrev => task[i] # "skipped"

\* C6: on every exit path of a run in which a remote session was opened the
\* session has been released by the time the handler returns or throws.
C6_SessionReleased ==
  /\ (pc \in {"returned", "threw"}) => session # "open"
  /\ (wpc \in {"returned", "threw"}) => wsession # "open"

C6_Witness ==
  /\ pc = "threw"
  /\ err = "list"
  /\ session = "closed"

\* C7: time-window filter.  windowStart is now - LOOKBACK_MINUTES*60 with
\* now sampled once at the start of the run; a listed file is considered in
\* the run if and only if its mtime >= windowStart (boundary included), no
\* per-file operation touches a file before the window, and a run that
\* completes has checked every file of the window.
C7_TimeWindow ==
  ListedE =>
    /\ windowStart = now - (LOOKBACK_MINUTES * 60)
    /\ \A f \in Range(allFiles) : (f.mtime >= windowStart) <=> (f \in Range(recentFiles))
    /\ \A i \in 1..Len(st) :
         st[i] # NoSt => recentFiles[i].mtime >= windowStart
    /\ (pc = "returned") => \A i \in 1..Len(st) : st[i].lookup # "none"

C7_Witness ==
  /\ pc = "returned"
  /\ clock \div 1000 > now
  /\ \E f \in Range(allFiles) : f.mtime < windowStart
  /\ \E i \in 1..Len(st) :
       recentFiles[i].mtime = windowStart /\ st[i].lookup # "none"

\* C8: fail-open lookup.  When the ledger lookup throws for a file,
\* checkIdempotency returns false and raises nothing: the file is not
\* skipped and its transfer is attempted; when the lookup throws for every
\* file of a completed run, every in-window file was attempted.
C8_FailOpen ==
  /\ \A i \in 1..Len(st) :
       st[i].lookup = "threw" =>
         /\ st[i].outcome # "skipped"
         /\ (i < idx) => st[i].put # "none"
  /\ (pc = "returned" /\ \A i \in 1..Len(st) : st[i].lookup = "threw") =>
        \A f \in Range(allFiles) :
           f.mtime >= windowStart =>
             \E i \in 1..Len(st) : recentFiles[i] = f /\ st[i].put # "none"

C8_Witness ==
  /\ pc = "returned"
  /\ Len(st) >= 2
  /\ \A i \in 1..Len(st) : st[i].lookup = "threw" /\ st[i].put # "none"
  /\ \E i \in 1..Len(st) : Key(recentFiles[i]) \in DOMAIN ledger

\* C9: summary accounting.  For a run over N listed files in which some
\* file raises during fetch or write, the reported processed count plus
\* skipped count equals N.
RegularFiles == {i \in 1..Len(wfiles) : wfiles[i].type = "-"}
C9_SummaryAccounting ==
  (wpc = "returned" /\ \E i \in 1..Len(task) : task[i] = "failed") =>
     processedFiles + skippedFiles = Cardinality(RegularFiles)

\* C10: serialized session use.  At any moment of a run at most one list or
\* fetch operation is in flight on the shared remote session.
InFlight ==
  (IF pc \in {"list", "upload"} THEN 1 ELSE 0)
  + (IF wpc = "listFiles" THEN 1 ELSE 0)
  + (IF wpc = "await"
     THEN Cardinality({i \in 1..Len(task) : task[i] = "downloading"})
     ELSE 0)
C10_Serialized == InFlight <= 1

\* C11: watermark comparison.  A regular file whose name yields a token is
\* skipped if and only if a watermark exists and the token, read as a
\* number, is at most the watermark (equal included); with no matching key
\* in the sink there is no watermark and no recognized file is skipped.
DigitSeq == <<"0", "1", "2", "3", "4", "5", "6", "7", "8", "9">>
RECURSIVE NumVal(_)
NumVal(s) ==
  IF s = <<>> THEN 0
  ELSE NumVal(SubSeq(s, 1, Len(s) - 1)) * 10 + (Pos(DigitSeq, s[Len(s)]) - 1)
TokLeq(a, b) ==
  LET ah == NumVal(SubSeq(a, 1, 6))
      al == NumVal(SubSeq(a, 7, 12))
      bh == NumVal(SubSeq(b, 1, 6))
      bl == NumVal(SubSeq(b, 7, 12))
  IN ah < bh \/ (ah = bh /\ al <= bl)
Recognized(i) == wfiles[i].type = "-" /\ extractTimestamp(wfiles[i].name) # "null"

C11_WatermarkComparison ==
  /\ \A i \in 1..Len(task) :
       Recognized(i) =>
         (task[i] = "skipped" <=>
            (latestS3Timestamp # "null"
               /\ TokLeq(extractTimestamp(wfiles[i].name), latestS3Timestamp)))
  /\ (wpc = "map" /\ \A k \in DOMAIN sink : ~isMatchingFilename(k)) =>
        latestS3Timestamp = "null"

C11_Witness ==
  /\ latestS3Timestamp # "null"
  /\ \E i, j \in 1..Len(task) :
       /\ Recognized(i) /\ Recognized(j)
       /\ extractTimestamp(wfiles[i].name) = latestS3Timestamp
       /\ task[i] = "skipped"
       /\ extractTimestamp(wfiles[j].name) # latestS3Timestamp
       /\ task[j] = "downloading"

\* C12: fatal errors before enumeration.  An invalid environment or
\* credentials document, a failed connect or a failed listing make the
\* handler throw with no file fetched, written or committed in that run, and
\* an invalid configuration fails before any connection is attempted.
ValidCfg == cfg.env /\ cfg.doc /\ cfg.host /\ cfg.username /\ cfg.auth /\ cfg.dir

C13_LedgerNeverFatal ==
  /\ \A i \in 1..Len(st) :
       /\ st[i].mark = "failed" => st[i].outcome = "copied"
       /\ (st[i].lookup = "threw" /\ i < idx) => st[i].outcome \in {"copied", "failed"}
  /\ wpc \in {"handlerCatch", "threw"} => werr # "S3Error"

\* C14: sink write failure.  When the put fails, upload makes no second put,
\* attempts the multipart-abort cleanup exactly once, and throws the put's
\* error whether the cleanup succeeded or failed; the file is never committed
\* and never counted as copied.
C14_UploadFailure ==
  strategy = "exact" =>
    /\ \A i \in 1..Len(st) :
         /\ st[i].puts <= 1
         /\ st[i].cleanups <= 1
         /\ st[i].cleanups = 1 => st[i].put = "threw"
         /\ (st[i].put = "threw" /\ (i < idx \/ pc = "fileCatch")) =>
              /\ st[i].puts = 1
              /\ st[i].cleanups = 1
              /\ st[i].mark = "none"
              /\ st[i].outcome = IF i < idx THEN "failed" ELSE "pending"
    /\ pc = "fileCatch" =>
         /\ ferr = st[idx].perr
         /\ ferr \in {"readError", "putError"}

C14_Witness ==
  /\ pc = "fileCatch"
  /\ st[idx].cleanup = "failed"
  /\ st[idx].cleanups = 1
  /\ ferr = "putError"

\* C15: overlapping runs of the exact-strategy handler.  At every moment a
\* ledger record implies the object is in the sink; once both invocations
\* have finished, every file either of them found eligible has an outcome,
\* and each one that did not fail is in the sink at its derived key.
C15_OverlapHarmless ==
  /\ \A k \in DOMAIN ledger :
       \E f \in Range(listRecursive(REMOTE_DIR)) :
         /\ Key(f) = k
         /\ S3Key(f.path) \in DOMAIN sink
         /\ sink[S3Key(f.path)] = k
  /\ (\A i \in Invocations : OFinished(i)) =>
       \A i \in Invocations : \A j \in 1..Len(ov[i].recentFiles) :
         LET f == ov[i].recentFiles[j]
         IN /\ ov[i].st[j].outcome \in {"copied", "skipped", "failed"}
            /\ ov[i].st[j].outcome # "failed" =>
                 /\ S3Key(f.path) \in DOMAIN sink
                 /\ sink[S3Key(f.path)] = Key(f)

C15_Witness ==
  /\ ddbTable
  /\ \A i \in Invocations : ov[i].pc = "returned"
  /\ \E j \in 1..Len(ov[1].recentFiles) : \E m \in 1..Len(ov[2].recentFiles) :
       /\ ov[1].recentFiles[j] = ov[2].recentFiles[m]
       /\ ov[1].st[j] = [lookup |-> "miss", outcome |-> "copied"]
       /\ ov[2].st[m] = [lookup |-> "miss", outcome |-> "copied"]
       /\ Key(ov[1].recentFiles[j]) \in DOMAIN ledger
  /\ \E j \in 1..Len(ov[1].recentFiles) : ov[1].st[j].outcome = "skipped"

\* C16: key derivation.  Deriving the key twice from the same path, root and
\* prefix gives the same key, and the key of a path under the root never
\* begins with "/".
Derived == pf.fn = "s3Key" /\ pf.step = 2

C16_NeverLeadingSlash ==
  Derived => (pf.key1 = pf.key2 /\ pf.key1 # <<>> /\ pf.key1[1] # "/")

\* C16 as the code has it: the key never begins with "/" unless the
\* destination prefix itself begins with "/".
C16_NoLeadingSlashFromPath ==
  Derived =>
    /\ pf.key1 = pf.key2
    /\ pf.key1 # <<>>
    /\ (pf.prefix = <<>> \/ pf.prefix[1] # "/") => pf.key1[1] # "/"

C16_Witness ==
  /\ Derived
  /\ pf.prefix = <<>>
  /\ pf.root = <<"/", "i", "n", "/">>
  /\ pf.path = <<"/", "i", "n", "/", "/", "s", "/", "c">>
  /\ pf.key1 = <<"s", "/", "c">>

\* C17: decompression round trip.  Normalizing gzip(C) under the name "f.gz"
\* returns the content C and the name "f".
C17_GzipRoundTrip ==
  (pf.fn = "normalize" /\ pf.step = 1 /\ pf.name = <<"f">> \o DotGz) =>
    /\ pf.out.ok
    /\ pf.out.buffer = pf.content
    /\ pf.out.name = <<"f">>

C17_Witness ==
  /\ pf.fn = "normalize"
  /\ pf.step = 1
  /\ pf.name = <<"f">> \o DotGz
  /\ pf.content = <<80, 75, 31>>
  /\ pf.out.ok
  /\ pf.out.buffer = <<80, 75, 31>>

\* C18: the watermark a run uses is the greatest token among all sink keys
\* that match the filename pattern, and is absent only when none matches.
SinkTokens == {extractTimestamp(k) : k \in {o \in DOMAIN sink : isMatchingFilename(o)}}

C18_WatermarkIsGreatestToken ==
  wpc = "map" =>
    IF SinkTokens = {} THEN latestS3Timestamp = "null"
    ELSE /\ latestS3Timestamp \in SinkTokens
         /\ \A t \in SinkTokens : TokLeq(t, latestS3Timestamp)

\* C19: every key written is the prefix followed by the path relative to the
\* root, with one separator between them and no "//" anywhere.
RelativePath(path) == SubSeq(path, Len(REMOTE_DIR) + 2, Len(path))

C19_KeyShape ==
  strategy = "exact" =>
    \A k \in DOMAIN sink :
      /\ IndexOf(k, <<"/", "/">>) = 0
      /\ \E f \in Range(listRecursive(REMOTE_DIR)) :
           k = TARGET_PREFIX \o RelativePath(f.path)

\* C20: a DedupRecord is write-once.  A step never changes or removes a
\* record that exists, and every record has expiresAt = processedAt + 90 days.
C20_WriteOnce ==
  [][ /\ \A k \in DOMAIN ledger : k \in DOMAIN ledger' /\ ledger'[k] = ledger[k]
      /\ \A k \in DOMAIN ledger' :
           ledger'[k].expiresAt = ledger'[k].processedAt + (90 * 24 * 60 * 60)
    ]_vars

\* C21: in the watermark handler a file whose name yields no token is never
\* fetched or written, and the reason it is skipped with differs from the
\* reason of a duplicate (token <= watermark).
Unrecognized(i) == wfiles[i].type = "-" /\ extractTimestamp(wfiles[i].name) = "null"

C21_UnrecognizedDistinctReason ==
  \A i \in 1..Len(task) :
    Unrecognized(i) =>
      /\ task[i] = "skipped"
      /\ \A k \in DOMAIN sink : k # SftpUser \o wfiles[i].name
      /\ \A j \in 1..Len(task) :
           (Recognized(j) /\ task[j] = "skipped") =>
             SkipReason("null", latestS3Timestamp)
               # SkipReason(extractTimestamp(wfiles[j].name), latestS3Timestamp)

\* C22: run phases occur in order.  No listing without a connected session,
\* no per-file step before the listing (and, in the watermark handler, the
\* sink scan); per file the steps go fetch, normalize, write, commit, each
\* only after the previous one succeeded; the handler returns its summary
\* only when every file has an outcome.
EPhaseOrder ==
  /\ pc \in {"list", "loop", "upload", "abortMultipart", "mark", "fileCatch"} =>
       (sftp = "client" /\ session = "open")
  /\ pc \in {"loop", "upload", "abortMultipart", "mark", "fileCatch"} => ListedE
  /\ st # <<>> => ListedE
  /\ \A i \in 1..Len(st) :
       /\ st[i].put # "none" => st[i].lookup \in {"miss", "threw", "disabled"}
       /\ st[i].mark # "none" => st[i].put = "ok"
       /\ st[i].outcome = "copied" => st[i].mark # "none"
       /\ i > idx => st[i] = NoSt
       /\ i < idx => st[i].outcome # "pending"
  /\ pc = "returned" => \A i \in 1..Len(st) : st[i].outcome # "pending"

WPhaseOrder ==
  /\ wpc \in {"listFiles", "getLatest", "map", "await"} => wsession = "open"
  /\ wpc \in {"getLatest", "map", "await"} => wfiles = WRemoteList
  /\ task # <<>> => (wfiles = WRemoteList /\ Len(task) = Len(wfiles)
                      /\ wpc \notin {"connect", "listFiles", "getLatest", "map"})
  /\ wpc = "returned" => (task # <<>> /\ \A i \in 1..Len(task) : WSettled(task[i]))

WTaskStep ==
  /\ Len(task') = Len(task) =>
       \A i \in 1..Len(task) :
         task'[i] # task[i] =>
           <<task[i], task'[i]>> \in
             { <<"downloading", "decompressing">>, <<"downloading", "failed">>,
               <<"decompressing", "uploading">>, <<"decompressing", "failed">>,
               <<"uploading", "uploaded">>, <<"uploading", "failed">> }
  /\ (strategy = "watermark" /\ sink' # sink) =>
       \E i \in 1..Len(task) : task[i] = "uploading" /\ task'[i] = "uploaded"

C22_PhaseOrder == [][EPhaseOrder' /\ WPhaseOrder' /\ WTaskStep]_vars

C22_Witness ==
  /\ wpc = "returned"
  /\ \E i, j \in 1..Len(task) :
       /\ task[i] = "uploaded"
       /\ wfiles[i].name = UsageAcct \o Tok2 \o DotCsv \o DotGz
       /\ SftpUser \o UsageAcct \o Tok2 \o DotCsv \in DOMAIN sink
       /\ task[j] = "failed"

\* C23: enumeration yields exactly one handle for each non-directory entry
\* anywhere in the tree under the root, with path = directory + "/" + name,
\* and returns no directory as a file.
TreeEntries ==
  UNION { { <<d, k>> : k \in {n \in 1..Len(RemoteTree[d]) : RemoteTree[d][n].type # "d"} } :
          d \in DOMAIN RemoteTree }
TreePaths == {e[1] \o <<"/">> \o RemoteTree[e[1]][e[2]].name : e \in TreeEntries}
WTreePaths ==
  {SFTP_DIR \o <<"/">> \o WRemoteList[k].name :
     k \in {n \in 1..Len(WRemoteList) : WRemoteList[n].type # "d"}}
  \cup
  {SFTP_DIR \o <<"/", "d", "/">> \o WRemoteSubList[k].name :
     k \in {n \in 1..Len(WRemoteSubList) : WRemoteSubList[n].type # "d"}}
WHandles ==
  {SFTP_DIR \o <<"/">> \o wfiles[i].name :
     i \in {n \in 1..Len(wfiles) : wfiles[n].type = "-"}}

C23_Enumeration ==
  /\ ListedE =>
       /\ {allFiles[i].path : i \in 1..Len(allFiles)} = TreePaths
       /\ Len(allFiles) = Cardinality(TreeEntries)
  /\ wfiles # <<>> => WHandles = WTreePaths

Normalized == pf.fn = "normalizeRaw" /\ pf.step = 1
NoFileEntry(b) == \A e \in 1..Len(zipFiles(b)) : zipFiles(b)[e].type # "File"

C25_DecompressionFailure ==
  (Normalized /\ EndsWith(pf.name, DotGz)) =>
    LET b == pf.content
        corrupt == hasGzipMagicHeader(b) /\ ~gunzipOk(b)
        notArchive == ~hasGzipMagicHeader(b) /\ ~unzipOpenOk(b)
        noFile == ~hasGzipMagicHeader(b) /\ unzipOpenOk(b) /\ NoFileEntry(b)
    IN /\ (corrupt \/ notArchive \/ noFile) <=> ~pf.out.ok
       /\ ~pf.out.ok => (pf.out.error = "CompressionError" /\ pf.out.name = pf.name)
       /\ corrupt => pf.out.message = "Gzip decompression failed"

C25_Witness ==
  /\ Normalized
  /\ pf.name = <<"f">> \o DotGz
  /\ pf.content = <<31, 139, 80>>
  /\ ~pf.out.ok
  /\ pf.out.error = "CompressionError"

\* C26: for a name that does not end in .gz, normalization returns the same
\* bytes and the same name, whatever the content, and raises nothing.
C26_PassThrough ==
  (Normalized /\ ~EndsWith(pf.name, DotGz)) =>
    /\ pf.out.ok
    /\ pf.out.buffer = pf.content
    /\ pf.out.name = pf.name

C26_Witness ==
  /\ Normalized
  /\ pf.name = <<"f">> \o DotCsv
  /\ pf.content = gzip(<<7>>)
  /\ pf.out.ok
  /\ pf.out.buffer = gzip(<<7>>)

\* C27: in the watermark handler the session is disconnected only after
\* every dispatched task has finished: when disconnect is called, and ever
\* after the session is closed, no task is downloading, decompressing or
\* uploading, also when some tasks have failed.
C27_DisconnectAfterTasks ==
  (wpc \in {"disconnect", "handlerCatch", "returned", "threw"} \/ wsession = "closed") =>
    \A i \in 1..Len(task) : WSettled(task[i])

C27_Witness ==
  /\ wpc = "disconnect"
  /\ wsession = "open"
  /\ \E i, j \in 1..Len(task) : task[i] = "failed" /\ task[j] = "uploaded"

\* C28: in the watermark handler, under every interleaving of the tasks,
\* processedFiles is the number of files whose upload succeeded and
\* skippedFiles the number of regular files the filter rejected; a failed
\* file is counted in neither.
FilterRejects(i) ==
  /\ wfiles[i].type = "-"
  /\ \/ extractTimestamp(wfiles[i].name) = "null"
     \/ /\ latestS3Timestamp # "null"
        /\ TokLeq(extractTimestamp(wfiles[i].name), latestS3Timestamp)

C28_Counters ==
  task # <<>> =>
    /\ processedFiles = Cardinality({i \in 1..Len(task) : task[i] = "uploaded"})
    /\ skippedFiles = Cardinality({i \in 1..Len(task) : FilterRejects(i)})
    /\ processedFiles + skippedFiles
         + Cardinality({i \in 1..Len(task) : task[i] = "failed"})
         <= Cardinality(RegularFiles)

C28_Witness ==
  /\ wpc = "returned"
  /\ processedFiles = 2
  /\ skippedFiles = 1
  /\ Cardinality({i \in 1..Len(task) : task[i] = "failed"}) >= 1

\* C29: a failing session release never changes the outcome of a run.  After
\* a fatal connect or listing error the handler throws that error, not the
\* release error, and a run that was successful does not throw because the
\* release failed.
C29_ReleaseFailureHarmless ==
  /\ pc \in {"threw", "returned"} => err # "end"
  /\ wpc \in {"threw", "returned"} =>
       werr \in {"none", "ConfigurationError", "SftpError", "S3Error"}

\* C30: no gap between windows.  A file whose mtime is not older than the
\* window of the previous run is, once the next run has listed the tree,
\* inside the window of at least one run that listed it.
C30_NoWindowGap ==
  (strategy = "exact" /\ runs >= 2 /\ ListedE) =>
    \A i \in 1..Len(allFiles) :
      allFiles[i].mtime >= prevNow - (LOOKBACK_MINUTES * 60) =>
        Key(allFiles[i]) \in windowed

\* C31: within one run, distinct remote files that are transferred are written
\* under distinct sink keys.  In the exact handler the keys are those of the
\* files whose write succeeded; in the watermark handler they are "sftp_user/"
\* followed by the name the normalisation returns.
WSinkKey(i) ==
  SftpUser \o validateAndDecompressGzipBuffer(wfiles[i].data, wfiles[i].name).name

C31_DistinctKeys ==
  /\ strategy = "exact" =>
       \A i, j \in 1..Len(st) :
         (i # j /\ st[i].put = "ok" /\ st[j].put = "ok") =>
           S3Key(recentFiles[i].path) # S3Key(recentFiles[j].path)
  /\ (strategy = "watermark" /\ task # <<>>) =>
       \A i, j \in 1..Len(task) :
         (i # j /\ task[i] = "uploaded" /\ task[j] = "uploaded") =>
           WSinkKey(i) # WSinkKey(j)

====
